---- MODULE Spec2Model ----
(***************************************************************************)
(* Biased Thompson sampling for a multi-armed bandit of scripts            *)
(* (Carbocarde/bandits): the selection and ranking functions of            *)
(* src/src/thompson.rs and the roster operations (step, reset) of          *)
(* src/src/bandits.rs.                                                     *)
(*                                                                         *)
(* Numbers.  A percentile is k/Grid with k in 0..Grid.  A score is an      *)
(* f64 value: a finite rational n/d (d > 0), the sentinel f64::MAX, plus   *)
(* or minus infinity, or NaN.  Within the bounds of this model no finite   *)
(* product comes near f64::MAX, so a finite rational is always below the   *)
(* sentinel; rounding of finite values is not modelled.  A NotNan          *)
(* operation whose result is NaN panics (ordered_float).                   *)
(*                                                                         *)
(* Indices.  Sequences are 1-based here; every index that the code         *)
(* returns (Option<usize>, Vec<usize>) is kept 0-based as in the source.   *)
(***************************************************************************)
EXTENDS Integers, Sequences, FiniteSets, TLC

VARIABLES
    scripts,      \* config.scripts: the roster
    status,       \* "ok", or "panicked" once a handler has aborted
    last,         \* the last roster operation: the script a step ran, the
                  \* argument of a reset
    entries,      \* selector input: &[&ThompsonInfo]
    runtimes,     \* selector input: &[&Option<NotNan<f64>>]
    user_biases,  \* selector input: &[&NotNan<f64>]
    out           \* the last selector call: operation, draws, result

vars == <<scripts, status, last, entries, runtimes, user_biases, out>>

(***************************************************************************)
(* Bounds                                                                  *)
(***************************************************************************)
\* percentiles and uniform draws are multiples of 1/Grid
Grid == 2
\* longest slice of arms handed to a selector
MaxArms == 2
\* longest roster
MaxScripts == 2
\* no script is run once the run counts of the roster add up to this
MaxRuns == 3

(***************************************************************************)
(* Values                                                                  *)
(***************************************************************************)
\* Option<NotNan<f64>>: a runtime n/d in milliseconds, or None
NoRuntime == [some |-> FALSE, n |-> 0, d |-> 1]
SomeRuntime(n, d) == [some |-> TRUE, n |-> n, d |-> d]

\* Option<u64>: a script's limit
NoLimit == [some |-> FALSE, v |-> 0]
SomeLimit(v) == [some |-> TRUE, v |-> v]

ThompsonInfo(i, u) == [interesting |-> i, uninteresting |-> u]

\* f64 values
Fin(n, d) == [k |-> "fin", n |-> n, d |-> d]
F64_MAX == [k |-> "max", n |-> 0, d |-> 1]
PosInf == [k |-> "inf", n |-> 0, d |-> 1]
NegInf == [k |-> "ninf", n |-> 0, d |-> 1]
NaN == [k |-> "nan", n |-> 0, d |-> 1]

\* position of the non-NaN classes of f64 on the number line
KindRank(k) ==
    CASE k = "ninf" -> 0
      [] k = "fin" -> 1
      [] k = "max" -> 2
      [] k = "inf" -> 3

\* a > b on NotNan<f64>
Gt(a, b) ==
    IF a.k = "fin" /\ b.k = "fin"
    THEN a.n * b.d > b.n * a.d
    ELSE KindRank(a.k) > KindRank(b.k)

\* a = b on NotNan<f64>
Eq(a, b) == ~Gt(a, b) /\ ~Gt(b, a)

\* a * b on f64; NaN for 0 * infinity
Mul(a, b) ==
    LET sgn(x) == CASE x.k = "ninf" -> -1
                    [] x.k \in {"inf", "max"} -> 1
                    [] x.k = "fin" -> IF x.n > 0 THEN 1 ELSE IF x.n < 0 THEN -1 ELSE 0
    IN  IF a.k = "nan" \/ b.k = "nan" THEN NaN
        ELSE IF a.k = "fin" /\ b.k = "fin" THEN Fin(a.n * b.n, a.d * b.d)
        ELSE IF sgn(a) * sgn(b) = 0 THEN NaN
        ELSE IF sgn(a) * sgn(b) > 0 THEN PosInf
        ELSE NegInf

\* 100.0 / runtime on f64, runtime >= 0: infinity for a runtime of zero
Div100(r) == IF r.n = 0 THEN PosInf ELSE Fin(100 * r.d, r.n)

RECURSIVE GCD(_, _)
GCD(a, b) == IF b = 0 THEN a ELSE GCD(b, a % b)

RECURSIVE Pow(_, _)
Pow(x, e) == IF e = 0 THEN 1 ELSE x * Pow(x, e - 1)

RECURSIVE Choose(_, _)
Choose(n, j) == IF j = 0 \/ j = n THEN 1 ELSE Choose(n - 1, j - 1) + Choose(n - 1, j)

RECURSIVE SumFrom(_, _, _)
SumFrom(f, lo, hi) == IF lo > hi THEN 0 ELSE f[lo] + SumFrom(f, lo + 1, hi)

(***************************************************************************)
(* Posterior sampling (puruspe::invbetai as called by thompson_step)       *)
(***************************************************************************)
\* Grid^(a+b-1) times the regularized incomplete beta function I_(x/Grid)(a, b),
\* for integers a, b >= 1: the binomial sum over j = a .. a+b-1
BetaINum(x, a, b) ==
    LET n == a + b - 1
        term == [j \in a..n |-> Choose(n, j) * Pow(x, j) * Pow(Grid - x, n - j)]
    IN  SumFrom(term, a, n)

\* the quantile of Beta(a, b) at p = k/Grid, 0 < k < Grid: the least grid point
\* x/Grid at which I_x(a, b) >= p
Quantile(k, a, b) ==
    LET n == a + b - 1
        reach == {x \in 0..Grid : BetaINum(x, a, b) * Grid >= k * Pow(Grid, n)}
    IN  CHOOSE x \in reach : \A y \in reach : x <= y

\* the quantiles of every posterior the model can reach, computed once
MaxShape == MaxRuns + 1
QuantileTable ==
    [k \in 1..(Grid - 1), a \in 1..MaxShape, b \in 1..MaxShape |-> Quantile(k, a, b)]

\* invbetai(p, a, b) for p = k/Grid: 0 for p <= 0, 1 for p >= 1, otherwise the
\* quantile
InvBetaI(k, a, b) ==
    IF k <= 0 THEN 0
    ELSE IF k >= Grid THEN Grid
    ELSE QuantileTable[k, a, b]

\* thompson_step with the uniform draw random_float = u/Grid
thompson_step(interesting, uninteresting, u) ==
    Fin(InvBetaI(u, interesting + 1, uninteresting + 1), Grid)

(***************************************************************************)
(* Scores                                                                  *)
(***************************************************************************)
\* a user bias as the f64 it is
Bias(b) == Fin(b, 1)

\* a transform that multiplies by the runtime instead of dividing by it
skew_percentile_slow(sampled_point, runtime, user_bias) ==
    IF runtime.some
    THEN Mul(Mul(sampled_point, Fin(runtime.n, runtime.d * 100)), user_bias)
    ELSE F64_MAX

skew_percentile(sampled_point, runtime, user_bias) ==
    IF runtime.some
    THEN Mul(Mul(sampled_point, Div100(runtime)), user_bias)
    ELSE F64_MAX

thompson_step_bias_runtime(interesting, uninteresting, runtime, user_bias, u) ==
    skew_percentile(thompson_step(interesting, uninteresting, u), runtime, user_bias)

\* the scores the runtime-aware functions compute, one per entry
SkewedScores(es, rs, bs, draws) ==
    [i \in 1..Len(es) |->
        thompson_step_bias_runtime(es[i].interesting, es[i].uninteresting,
                                   rs[i], Bias(bs[i]), draws[i])]

\* the scores thompson_sampling compares: percentile *= user_biases[index]
BiasedScores(es, bs, draws) ==
    [i \in 1..Len(es) |->
        Mul(thompson_step(es[i].interesting, es[i].uninteresting, draws[i]), Bias(bs[i]))]

\* the scores thompson_ranking sorts by: the bare percentile
PlainScores(es, draws) ==
    [i \in 1..Len(es) |->
        thompson_step(es[i].interesting, es[i].uninteresting, draws[i])]

\* some score of the call is NaN: the NotNan arithmetic panics
Panics(scores) == \E i \in 1..Len(scores) : scores[i].k = "nan"

(***************************************************************************)
(* Selection                                                               *)
(***************************************************************************)
\* results of a selector call
RNone == [kind |-> "None", idx |-> 0, order |-> <<>>]
RSome(i) == [kind |-> "Some", idx |-> i, order |-> <<>>]
RVec(v) == [kind |-> "Vec", idx |-> 0, order |-> v]
RPanic == [kind |-> "panic", idx |-> 0, order |-> <<>>]

\* a selection that starts at the first entry instead of at None
selected_entry_index_first == RSome(0)

\* let mut selected_entry_index = None
selected_entry_index_init == RNone

\* let mut selected_entry_percentile = -1.0
selected_entry_percentile_init == Fin(-1, 1)

\* the for loop of thompson_sampling and thompson_sampling_bias_runtime from
\* entry i on: a strictly greater score replaces the selection
RECURSIVE SelectLoop(_, _, _, _)
SelectLoop(scores, i, selected_entry_index, selected_entry_percentile) ==
    IF i > Len(scores) THEN selected_entry_index
    ELSE IF Gt(scores[i], selected_entry_percentile)
         THEN SelectLoop(scores, i + 1, RSome(i - 1), scores[i])
         ELSE SelectLoop(scores, i + 1, selected_entry_index, selected_entry_percentile)

thompson_sampling_bias_runtime(es, rs, bs, draws) ==
    LET scores == SkewedScores(es, rs, bs, draws)
    IN  IF Panics(scores) THEN RPanic
        ELSE SelectLoop(scores, 1, selected_entry_index_init, selected_entry_percentile_init)

thompson_sampling(es, bs, draws) ==
    LET scores == BiasedScores(es, bs, draws)
    IN  IF Panics(scores) THEN RPanic
        ELSE SelectLoop(scores, 1, selected_entry_index_init, selected_entry_percentile_init)

(***************************************************************************)
(* Ranking                                                                 *)
(***************************************************************************)
\* one step of the stable sort: i goes before the first element whose key is
\* strictly greater, so after every element with an equal key
RECURSIVE InsertByKey(_, _, _)
InsertByKey(sorted, i, keys) ==
    IF sorted = <<>> THEN <<i>>
    ELSE IF Gt(keys[Head(sorted)], keys[i]) THEN <<i>> \o sorted
    ELSE <<Head(sorted)>> \o InsertByKey(Tail(sorted), i, keys)

\* sort_by_key: the positions 1..n in ascending order of key, stable
RECURSIVE sort_by_key(_, _)
sort_by_key(keys, n) ==
    IF n = 0 THEN <<>> ELSE InsertByKey(sort_by_key(keys, n - 1), n, keys)

\* .iter().rev().map(|(index, _)| *index).collect(), indices 0-based
RevIndices(sorted) == [j \in 1..Len(sorted) |-> sorted[Len(sorted) + 1 - j] - 1]

thompson_ranking_bias_runtime(es, rs, bs, draws) ==
    LET scores == SkewedScores(es, rs, bs, draws)
    IN  IF Panics(scores) THEN RPanic
        ELSE RVec(RevIndices(sort_by_key(scores, Len(scores))))

thompson_ranking(es, draws) ==
    LET scores == PlainScores(es, draws)
    IN  RVec(RevIndices(sort_by_key(scores, Len(scores))))

(***************************************************************************)
(* The selectors on their own: one call on any slice of arms, any draws    *)
(***************************************************************************)
\* statistics, runtimes and biases an arm is given
ArmStats == {ThompsonInfo(0, 0), ThompsonInfo(1, 0)}
ArmRuntimes == {NoRuntime, SomeRuntime(0, 1), SomeRuntime(1, 1), SomeRuntime(100, 1)}
ArmBiases == {0, 1, 2}
Draws == 0..(Grid - 1)

Idle == [op |-> "idle", draws |-> <<>>, res |-> RNone]
NoOp == [op |-> "none", ran |-> 0, named |-> FALSE, target |-> 0]

InitSel ==
    /\ \E n \in 0..MaxArms :
          /\ entries \in [1..n -> ArmStats]
          /\ runtimes \in [1..n -> ArmRuntimes]
          /\ user_biases \in [1..n -> ArmBiases]
    /\ out = Idle
    /\ scripts = <<>>
    /\ status = "ok"
    /\ last = NoOp

CallSampling ==
    /\ out = Idle
    /\ \E draws \in [1..Len(entries) -> Draws] :
          out' = [op |-> "thompson_sampling", draws |-> draws,
                  res |-> thompson_sampling(entries, user_biases, draws)]
    /\ UNCHANGED <<scripts, status, last, entries, runtimes, user_biases>>

CallSamplingBiasRuntime ==
    /\ out = Idle
    /\ \E draws \in [1..Len(entries) -> Draws] :
          out' = [op |-> "thompson_sampling_bias_runtime", draws |-> draws,
                  res |-> thompson_sampling_bias_runtime(entries, runtimes, user_biases, draws)]
    /\ UNCHANGED <<scripts, status, last, entries, runtimes, user_biases>>

CallRanking ==
    /\ out = Idle
    /\ \E draws \in [1..Len(entries) -> Draws] :
          out' = [op |-> "thompson_ranking", draws |-> draws,
                  res |-> thompson_ranking(entries, draws)]
    /\ UNCHANGED <<scripts, status, last, entries, runtimes, user_biases>>

CallRankingBiasRuntime ==
    /\ out = Idle
    /\ \E draws \in [1..Len(entries) -> Draws] :
          out' = [op |-> "thompson_ranking_bias_runtime", draws |-> draws,
                  res |-> thompson_ranking_bias_runtime(entries, runtimes, user_biases, draws)]
    /\ UNCHANGED <<scripts, status, last, entries, runtimes, user_biases>>

NextSel ==
    \/ CallSampling
    \/ CallSamplingBiasRuntime
    \/ CallRanking
    \/ CallRankingBiasRuntime

SpecSel == InitSel /\ [][NextSel]_vars

(***************************************************************************)
(* The roster: choose_script, run_script, update_state, step, reset_state  *)
(***************************************************************************)
\* names of the scripts of a roster, by position, and a name no script has
Names == <<"a", "b", "c", "d">>
Ghost == "ghost"

\* what a user writes into a config: bias and limit of a script
ScriptBiases == {0, 1}
ScriptLimits == {NoLimit, SomeLimit(0), SomeLimit(1)}

\* what run_script can measure: duration.as_millis()
RuntimeMs == {0, 3}

\* a script as the subcommand new creates it, with the user's bias and limit
NewScript(name, bias, limit) ==
    [name |-> name, results |-> ThompsonInfo(0, 0), runcount |-> 0,
     avgruntime_ms |-> NoRuntime, bias |-> bias, limit |-> limit]

\* the filter of choose_script
Keep(x) == ~x.limit.some \/ x.limit.v < x.results.interesting

\* choose_script: the selector's result on the filtered statistics, the
\* filtered runtimes and the biases of all scripts; unwrap panics on None
choose_script(config, ignore_runtime, draws) ==
    LET kept == SelectSeq(config, Keep)
        items == [i \in 1..Len(kept) |-> kept[i].results]
        runtime == [i \in 1..Len(kept) |-> kept[i].avgruntime_ms]
        biases == [i \in 1..Len(config) |-> config[i].bias]
    IN  IF ignore_runtime
        THEN thompson_sampling(items, biases, draws)
        ELSE thompson_sampling_bias_runtime(items, runtime, biases, draws)

\* run_script: the ScriptResult of an exit status and a measured duration
run_script(exit, ms) ==
    CASE exit = "success" -> [interesting |-> 0, uninteresting |-> 1, runtime_ms |-> ms]
      [] exit = "exit1" -> [interesting |-> 1, uninteresting |-> 0, runtime_ms |-> ms]
      [] exit = "other" -> [interesting |-> 0, uninteresting |-> 0, runtime_ms |-> ms]

\* a runtime n/d in lowest terms
Reduced(n, d) == LET g == GCD(n, d) IN SomeRuntime(n \div g, d \div g)

\* an update that stores the counts of the last run instead of adding them
update_state_overwrite(existing_results, result) ==
    LET avg == existing_results.avgruntime_ms
        total_n == (IF avg.some THEN avg.n ELSE 0) * existing_results.runcount
        total_d == IF avg.some THEN avg.d ELSE 1
        runcount == existing_results.runcount + 1
    IN  [existing_results EXCEPT
            !.runcount = runcount,
            !.avgruntime_ms = Reduced(total_n + result.runtime_ms * total_d, total_d * runcount),
            !.results = ThompsonInfo(result.interesting, result.uninteresting)]

update_state(existing_results, result) ==
    LET results == ThompsonInfo(
            existing_results.results.interesting + result.interesting,
            existing_results.results.uninteresting + result.uninteresting)
        avg == existing_results.avgruntime_ms
        \* avgruntime_ms.unwrap_or(0.0) * runcount, as total_n / total_d
        total_n == (IF avg.some THEN avg.n ELSE 0) * existing_results.runcount
        total_d == IF avg.some THEN avg.d ELSE 1
        runcount == existing_results.runcount + 1
    IN  [existing_results EXCEPT
            !.runcount = runcount,
            !.avgruntime_ms = Reduced(total_n + result.runtime_ms * total_d, total_d * runcount),
            !.results = results]

\* the record a reset leaves
ResetScript(script) ==
    [script EXCEPT !.runcount = 0, !.results = ThompsonInfo(0, 0),
                   !.avgruntime_ms = NoRuntime]

StepOp(ran) == [op |-> "step", ran |-> ran, named |-> FALSE, target |-> 0]

\* a reset, with or without a script name; target is the position of the script
\* of that name, 0 when there is none
ResetOp(named, target) == [op |-> "reset", ran |-> 0, named |-> named, target |-> target]

\* the position in the roster of the script called script_name, 0 when no
\* script has that name
Position(config, script_name) ==
    IF \E i \in 1..Len(config) : config[i].name = script_name
    THEN CHOOSE i \in 1..Len(config) : config[i].name = script_name
    ELSE 0

Init ==
    /\ \E n \in 0..MaxScripts :
          \E bs \in [1..n -> ScriptBiases], ls \in [1..n -> ScriptLimits] :
              scripts = [i \in 1..n |-> NewScript(Names[i], bs[i], ls[i])]
    /\ status = "ok"
    /\ last = NoOp
    /\ entries = <<>>
    /\ runtimes = <<>>
    /\ user_biases = <<>>
    /\ out = Idle

\* step on an empty roster: the early return
StepEmpty ==
    /\ status = "ok"
    /\ scripts = <<>>
    /\ last' = StepOp(0)
    /\ UNCHANGED <<scripts, status, entries, runtimes, user_biases, out>>

\* the run counts of the roster, added up
RECURSIVE TotalRuns(_)
TotalRuns(config) ==
    IF config = <<>> THEN 0 ELSE Head(config).runcount + TotalRuns(Tail(config))

\* the results choose_script can get from the selector, over both modes and
\* all draws
Choices(config) ==
    {choose_script(config, ignore_runtime, draws) :
        ignore_runtime \in BOOLEAN,
        draws \in [1..Len(SelectSeq(config, Keep)) -> Draws]}

\* step: choose_script, run_script, update_state
Step ==
    /\ status = "ok"
    /\ scripts # <<>>
    /\ TotalRuns(scripts) < MaxRuns
    /\ \E chosen \in Choices(scripts) :
          \/ /\ chosen.kind = "panic"
             /\ status' = "panic_nan"
             /\ last' = StepOp(0)
             /\ UNCHANGED scripts
          \/ /\ chosen.kind = "None"
             /\ status' = "panic_unwrap"
             /\ last' = StepOp(0)
             /\ UNCHANGED scripts
          \/ /\ chosen.kind = "Some"
             /\ status' = "panic_spawn"
             /\ last' = StepOp(0)
             /\ UNCHANGED scripts
          \/ /\ chosen.kind = "Some"
             /\ \E exit \in {"success", "exit1", "other"}, ms \in RuntimeMs :
                   /\ scripts' = [scripts EXCEPT ![chosen.idx + 1] =
                                     update_state(@, run_script(exit, ms))]
                   /\ last' = StepOp(chosen.idx + 1)
                   /\ UNCHANGED status
    /\ UNCHANGED <<entries, runtimes, user_biases, out>>

\* the subcommand reset: reset_state, unless the roster is empty
Reset ==
    /\ status = "ok"
    /\ \E named \in BOOLEAN, script_name \in {Names[i] : i \in 1..MaxScripts} \cup {Ghost} :
          LET op == ResetOp(named, IF named THEN Position(scripts, script_name) ELSE 0)
          IN  IF scripts = <<>>
              THEN /\ last' = op
                   /\ UNCHANGED <<scripts, status>>
              ELSE IF named
              THEN IF \E i \in 1..Len(scripts) : scripts[i].name = script_name
                   THEN /\ status' = "panic_reset"
                        /\ last' = op
                        /\ UNCHANGED scripts
                   ELSE /\ scripts' = [i \in 1..Len(scripts) |->
                                          IF scripts[i].name = script_name
                                          THEN ResetScript(scripts[i]) ELSE scripts[i]]
                        /\ last' = op
                        /\ UNCHANGED status
              ELSE /\ scripts' = [i \in 1..Len(scripts) |-> ResetScript(scripts[i])]
                   /\ last' = op
                   /\ UNCHANGED status
    /\ UNCHANGED <<entries, runtimes, user_biases, out>>

Next ==
    \/ StepEmpty
    \/ Step
    \/ Reset

Spec == Init /\ [][Next]_vars

(***************************************************************************)
(* Properties of the selectors (SpecSel)                                   *)
(***************************************************************************)
NArms == Len(entries)
IsSampling == out.op \in {"thompson_sampling", "thompson_sampling_bias_runtime"}
IsRanking == out.op \in {"thompson_ranking", "thompson_ranking_bias_runtime"}

\* the scores the call recorded in out computed
CallScores ==
    CASE out.op = "thompson_sampling" -> BiasedScores(entries, user_biases, out.draws)
      [] out.op = "thompson_ranking" -> PlainScores(entries, out.draws)
      [] OTHER -> SkewedScores(entries, runtimes, user_biases, out.draws)

\* runtime r is shorter than runtime q, both known
Faster(r, q) == r.some /\ q.some /\ r.n * q.d < q.n * r.d

\* C1: when some arm's runtime is unknown, thompson_sampling_bias_runtime
\* returns an arm whose runtime is unknown
C1_UnknownRuntimeWins ==
    (out.op = "thompson_sampling_bias_runtime"
        /\ \E i \in 1..NArms : ~runtimes[i].some)
    => (out.res.kind = "Some" /\ ~runtimes[out.res.idx + 1].some)

\* C2: on a non-empty slice with non-negative biases both selection functions
\* return Some(i) with arm i's score the maximum of the call and i the lowest
\* index holding it
C2_SelectsFirstMaximum ==
    (IsSampling /\ NArms >= 1 /\ \A i \in 1..NArms : user_biases[i] >= 0)
    => /\ out.res.kind = "Some"
       /\ \A j \in 1..NArms :
             /\ ~Gt(CallScores[j], CallScores[out.res.idx + 1])
             /\ j < out.res.idx + 1 => Gt(CallScores[out.res.idx + 1], CallScores[j])

\* C3: on an empty slice both selection functions return None and do not abort
C3_EmptyReturnsNone ==
    (IsSampling /\ NArms = 0) => out.res = RNone

C3_Witness ==
    /\ out.op = "thompson_sampling_bias_runtime"
    /\ entries = <<>>
    /\ out.res.kind = "None"

\* C4: a ranking is in descending order of score, and arms of equal score are
\* in their original order, the lower index first
C4_RankStableDescending ==
    (IsRanking /\ out.res.kind = "Vec")
    => \A j, k \in 1..Len(out.res.order) :
          j < k =>
             LET a == out.res.order[j] + 1
                 b == out.res.order[k] + 1
             IN  /\ ~Gt(CallScores[b], CallScores[a])
                 /\ Eq(CallScores[a], CallScores[b]) => a < b

\* C5: a ranking call returns a permutation of the indices 0..N-1
C5_RankIsPermutation ==
    IsRanking
    => /\ out.res.kind = "Vec"
       /\ Len(out.res.order) = NArms
       /\ {out.res.order[j] : j \in 1..Len(out.res.order)} = 0..(NArms - 1)

\* the case of C6: two arms of identical statistics, equal bias and the same
\* draw, both runtimes known, arm f the faster
C6_Case(f, s) ==
    /\ out.op = "thompson_sampling_bias_runtime"
    /\ NArms = 2
    /\ entries[1] = entries[2]
    /\ user_biases[1] = user_biases[2]
    /\ out.draws[1] = out.draws[2]
    /\ Faster(runtimes[f], runtimes[s])

C7_RankMatchesSampling ==
    (out.op = "thompson_ranking" /\ NArms >= 1)
    => LET scores == BiasedScores(entries, user_biases, out.draws)
           sel == thompson_sampling(entries, user_biases, out.draws)
       IN  /\ \A j, k \in 1..Len(out.res.order) :
                 j < k => ~Gt(scores[out.res.order[k] + 1], scores[out.res.order[j] + 1])
           /\ sel = RSome(out.res.order[1])

(***************************************************************************)
(* Properties of the roster (Spec)                                         *)
(***************************************************************************)
\* script x has not reached its limit
BelowLimit(x) == ~x.limit.some \/ x.results.interesting < x.limit.v

\* C8: counters never decrease except when a reset sets them to {0,0}; a step
\* changes the record of the script it ran and of no other: run count +1, at
\* most one of the two counters +1, the runtime average updated
C8_StepFrame ==
    [][/\ Len(scripts') = Len(scripts)
       /\ \A i \in 1..Len(scripts) :
             \/ /\ scripts'[i].results.interesting >= scripts[i].results.interesting
                /\ scripts'[i].results.uninteresting >= scripts[i].results.uninteresting
             \/ /\ last'.op = "reset"
                /\ scripts'[i].results = ThompsonInfo(0, 0)
       /\ last'.op = "step" =>
             \A i \in 1..Len(scripts) :
                IF i = last'.ran
                THEN LET old == scripts[i]
                         new == scripts'[i]
                         di == new.results.interesting - old.results.interesting
                         du == new.results.uninteresting - old.results.uninteresting
                         tn == (IF old.avgruntime_ms.some THEN old.avgruntime_ms.n ELSE 0)
                                  * old.runcount
                         td == IF old.avgruntime_ms.some THEN old.avgruntime_ms.d ELSE 1
                     IN  /\ new.runcount = old.runcount + 1
                         /\ di \in {0, 1} /\ du \in {0, 1} /\ di + du <= 1
                         /\ new.avgruntime_ms.some
                         /\ \E ms \in RuntimeMs :
                               new.avgruntime_ms.n * td * new.runcount
                                  = (tn + ms * td) * new.avgruntime_ms.d
                         /\ new.name = old.name /\ new.bias = old.bias
                         /\ new.limit = old.limit
                ELSE scripts'[i] = scripts[i]
      ]_vars

C8_Witness ==
    /\ last = StepOp(2)
    /\ Len(scripts) = 2
    /\ scripts[2].runcount = 2
    /\ scripts[2].results.interesting = 1
    /\ scripts[1].runcount = 1

\* C9: a script of bias 0 is not run at a step at which a script of positive
\* bias has not reached its limit
C9_ZeroBiasRunsLast ==
    [][(/\ last'.op = "step"
        /\ last'.ran > 0
        /\ scripts[last'.ran].bias = 0)
       => ~\E j \in 1..Len(scripts) : scripts[j].bias > 0 /\ BelowLimit(scripts[j])
      ]_vars

\* C10: every runtime estimate the roster records is strictly positive, and no
\* step aborts on a score that is not a number
C10_RuntimesPositive ==
    /\ \A i \in 1..Len(scripts) :
          scripts[i].avgruntime_ms.some => scripts[i].avgruntime_ms.n > 0
    /\ status # "panic_nan"

\* C11: at every step the candidates of choose_script are the scripts that
\* have not reached their limit (all scripts without a limit, none of limit 0,
\* those of limit L > 0 while interesting < L), and the script that is run is
\* one of them
C11_LimitBoundsCandidates ==
    [][last'.op = "step" =>
          \A i \in 1..Len(scripts) :
             /\ Keep(scripts[i]) <=> BelowLimit(scripts[i])
             /\ i = last'.ran => BelowLimit(scripts[i])
      ]_vars

\* C12: a reset by the name of a script of the roster succeeds, resets that
\* script and leaves every other script untouched; a reset without a name
\* succeeds and resets every script; so a reset fails only when its name is
\* the name of no script
C12_ResetByName ==
    [][last'.op = "reset" =>
          IF last'.target > 0
          THEN /\ status' = "ok"
               /\ scripts' = [i \in 1..Len(scripts) |->
                                 IF i = last'.target
                                 THEN ResetScript(scripts[i]) ELSE scripts[i]]
          ELSE IF last'.named
          THEN TRUE
          ELSE /\ status' = "ok"
               /\ scripts' = [i \in 1..Len(scripts) |-> ResetScript(scripts[i])]
      ]_vars

\* C13: at every step the i-th statistics and the i-th bias handed to the
\* selector belong to the same script, every index the selector can return
\* denotes in the roster the script whose statistics won, and the script that
\* is run is a candidate
C13_RunsTheWinner ==
    [][last'.op = "step" =>
          LET kept == SelectSeq(scripts, Keep)
          IN  /\ \A i \in 1..Len(kept) : kept[i].name = scripts[i].name
              /\ \A chosen \in Choices(scripts) :
                    chosen.kind = "Some" =>
                       kept[chosen.idx + 1].name = scripts[chosen.idx + 1].name
              /\ last'.ran > 0 => Keep(scripts[last'.ran])
      ]_vars

====
